---- MODULE Spec2Model ----
(***************************************************************************)
(* A model of lfchring: a lock-free consistent hashing ring for one writer *)
(* and many readers.  The facade (HashRing) is modelled from ring.go; the  *)
(* ring state (hashRingState) it delegates to is modelled from the         *)
(* design document.                                                        *)
(***************************************************************************)
EXTENDS Integers, Sequences, FiniteSets, TLC

\* ------------------------------------------------------------------ bounds

\* Largest replication factor / virtual-node count of the rings on which
\* nodes are inserted (the limits of the fields are far larger).
MaxRF == 2
MaxVNC == 2
\* Number of concurrent readers of the concurrent specification.
MaxReaders == 1
\* Number of stores after which the writer of the ordered specification stops.
MaxStores == 2

\* ------------------------------------------------------- program constants

\* (1<<8)-1 and (1<<16)-1: the largest replicationFactor / virtualNodeCount.
MaxUint8 == 255
MaxUint16 == 65535

\* ----------------------------------------------------------------- values

\* type Node string
Nodes == {"A", "B", "C"}

\* []byte(node): the bytes of a Node.
NodeBytes(n) == CASE n = "A" -> <<0>> [] n = "B" -> <<1>> [] OTHER -> <<2>>

\* The bytes of a 16-bit sequence number.
SeqBytes(vnid) == <<vnid \div 256, vnid % 256>>

\* bytes.Compare: byte-lexicographic order, -1, 0 or 1.
RECURSIVE bytesCompare(_, _)
bytesCompare(a, b) ==
    IF Len(a) = 0 /\ Len(b) = 0 THEN 0
    ELSE IF Len(a) = 0 THEN -1
    ELSE IF Len(b) = 0 THEN 1
    ELSE IF Head(a) < Head(b) THEN -1
    ELSE IF Head(a) > Head(b) THEN 1
    ELSE bytesCompare(Tail(a), Tail(b))

\* The caller's hash functions: deterministic, []byte -> []byte, with a
\* two-byte digest.  NilHash is the absent function.
NilHash == "nil"
HashFuncs == {"grouped", "scatter"}

RECURSIVE Digest(_, _, _)
Digest(b, w, acc) ==
    IF Len(b) = 0 THEN acc
    ELSE Digest(Tail(b), Tail(w), (acc + Head(w) * Head(b)) % 16)

\* A hash function under which a node's virtual nodes collide with those
\* of the next node.
ClashFuncs == {"clash"}

HashWeights(h) ==
    CASE h = "grouped" -> <<5, 0, 1>>
      [] h = "clash"   -> <<1, 0, 1>>
      [] OTHER         -> <<5, 0, 7>>

ApplyHash(h, b) ==
    LET w == HashWeights(h)
        c == Digest(SubSeq(b, 1, Len(w)), w, 0)
    IN  <<c \div 4, c % 4>>

\* Keys looked up by the readers (keys are compared with names as bytes).
Keys == {<<>>, <<0, 0>>, <<1>>, <<1, 2>>, <<2, 1, 0>>, <<3, 3, 0>>}

\* type VirtualNode struct { name; node; vnid }
NewVirtualNode(h, node, vnid) ==
    [name |-> ApplyHash(h, NodeBytes(node) \o SeqBytes(vnid)),
     node |-> node, vnid |-> vnid]

\* A nil pointer, a nil error.
Nil == "nil"

\* ------------------------------------------------------------ ring state

\* sort.Search over the virtual nodes: the smallest 0-based index whose
\* name is >= key, or the length when there is none.
RECURSIVE search(_, _, _, _)
search(vns, key, lo, hi) ==
    IF lo >= hi THEN lo
    ELSE LET mid == (lo + hi) \div 2
         IN  IF bytesCompare(vns[mid + 1].name, key) < 0
             THEN search(vns, key, mid + 1, hi)
             ELSE search(vns, key, lo, mid)

searchIndex(vns, key) == search(vns, key, 0, Len(vns))

found(vns, key) ==
    LET i == searchIndex(vns, key)
    IN  i < Len(vns) /\ bytesCompare(vns[i + 1].name, key) = 0

insertAt(vns, i, vn) == SubSeq(vns, 1, i) \o <<vn>> \o SubSeq(vns, i + 1, Len(vns))

removeAt(vns, i) == SubSeq(vns, 1, i) \o SubSeq(vns, i + 2, Len(vns))

\* The distinct nodes owning the virtual nodes.
owners(vns) == {vns[i].node : i \in 1..Len(vns)}

\* hashRingState.size: the number of distinct nodes.
size(s) == Cardinality(owners(s.virtualNodes))

\* The replica owners of the virtual node at 0-based index i: the distinct
\* owners met walking forward from just after it, until replicationFactor
\* are collected or the whole ring has been walked.
RECURSIVE walkOwners(_, _, _, _, _)
walkOwners(vns, rf, j, steps, acc) ==
    IF steps = 0 \/ Len(acc) >= rf THEN acc
    ELSE LET n == vns[(j % Len(vns)) + 1].node
             seen == {acc[k] : k \in 1..Len(acc)}
         IN  walkOwners(vns, rf, j + 1, steps - 1,
                        IF n \in seen THEN acc ELSE Append(acc, n))

\* Mutant: the mapping is repaired for the virtual nodes that have no entry
\* yet; the entries there are kept.
fixReplicaOwnersKeepsEntries(s) ==
    LET vns == s.virtualNodes
        vset == {vns[i] : i \in 1..Len(vns)}
        idx(vn) == CHOOSE i \in 1..Len(vns) : vns[i] = vn
    IN  [s EXCEPT !.replicaOwners =
            [vn \in vset \cup DOMAIN s.replicaOwners |->
                IF vn \in DOMAIN s.replicaOwners THEN s.replicaOwners[vn]
                ELSE walkOwners(vns, s.replicationFactor, idx(vn), Len(vns), <<>>)]]

\* hashRingState.fixReplicaOwners: the mapping recomputed for every virtual node.
fixReplicaOwners(s) ==
    LET vns == s.virtualNodes
        vset == {vns[i] : i \in 1..Len(vns)}
        idx(vn) == CHOOSE i \in 1..Len(vns) : vns[i] = vn
    IN  [s EXCEPT !.replicaOwners =
            [vn \in vset |-> walkOwners(vns, s.replicationFactor, idx(vn), Len(vns), <<>>)]]

\* hashRingState.derive: a deep copy sharing the configuration.
derive(s) ==
    [hash |-> s.hash,
     virtualNodeCount |-> s.virtualNodeCount,
     replicationFactor |-> s.replicationFactor,
     virtualNodes |-> [i \in 1..Len(s.virtualNodes) |-> s.virtualNodes[i]],
     replicaOwners |-> [vn \in DOMAIN s.replicaOwners |-> s.replicaOwners[vn]]]

\* The virtual nodes of a batch, in generation order.
RECURSIVE generate(_, _, _)
generate(s, nodes, vnid) ==
    IF Len(nodes) = 0 THEN <<>>
    ELSE IF vnid >= s.virtualNodeCount THEN generate(s, Tail(nodes), 0)
    ELSE <<NewVirtualNode(s.hash, Head(nodes), vnid)>> \o generate(s, nodes, vnid + 1)

\* Mutant: the generated virtual nodes are appended, the ring is not re-sorted.
RECURSIVE mergeInsertAppends(_, _)
mergeInsertAppends(vns, new) ==
    IF Len(new) = 0 THEN [err |-> FALSE, vns |-> vns]
    ELSE IF \E i \in 1..Len(vns) : vns[i].name = Head(new).name THEN [err |-> TRUE, vns |-> vns]
    ELSE mergeInsertAppends(Append(vns, Head(new)), Tail(new))

\* Mutant: the names are looked up on the ring as it was before the batch,
\* and the batch is then merged whole.
RECURSIVE mergeUnchecked(_, _)
mergeUnchecked(vns, new) ==
    IF Len(new) = 0 THEN vns
    ELSE mergeUnchecked(insertAt(vns, searchIndex(vns, Head(new).name), Head(new)), Tail(new))

mergeInsertChecksRingOnly(vns, new) ==
    IF \E i \in 1..Len(new) : found(vns, new[i].name) THEN [err |-> TRUE, vns |-> vns]
    ELSE [err |-> FALSE, vns |-> mergeUnchecked(vns, new)]

\* Merge the generated virtual nodes one by one at their binary-search
\* position; a name already on the ring is a duplicate.
RECURSIVE mergeInsert(_, _)
mergeInsert(vns, new) ==
    IF Len(new) = 0 THEN [err |-> FALSE, vns |-> vns]
    ELSE IF found(vns, Head(new).name) THEN [err |-> TRUE, vns |-> vns]
    ELSE mergeInsert(insertAt(vns, searchIndex(vns, Head(new).name), Head(new)), Tail(new))

\* Remove the regenerated names one by one; a name not on the ring is missing.
RECURSIVE mergeRemove(_, _)
mergeRemove(vns, old) ==
    IF Len(old) = 0 THEN [err |-> FALSE, vns |-> vns]
    ELSE IF ~found(vns, Head(old).name) THEN [err |-> TRUE, vns |-> vns]
    ELSE mergeRemove(removeAt(vns, searchIndex(vns, Head(old).name)), Tail(old))

\* Errors of the ring state.
ErrEmptyRing == "empty ring"
ErrSingleOwner == "single distinct node"
ErrDuplicate == "node already in the ring"
ErrMissing == "node not in the ring"

\* The first half of hashRingState.insert: the virtual nodes are merged
\* into the sequence (on an error the state is left as it was).
insertVirtualNodes(s, nodes) ==
    LET new == generate(s, nodes, 0)
        m == mergeInsert(s.virtualNodes, new)
    IN  IF m.err THEN [err |-> ErrDuplicate, state |-> s, vnodes |-> <<>>]
        ELSE [err |-> Nil, state |-> [s EXCEPT !.virtualNodes = m.vns], vnodes |-> new]

\* The first half of hashRingState.remove.
removeVirtualNodes(s, nodes) ==
    LET old == generate(s, nodes, 0)
        m == mergeRemove(s.virtualNodes, old)
    IN  IF m.err THEN [err |-> ErrMissing, state |-> s, vnodes |-> <<>>]
        ELSE [err |-> Nil, state |-> [s EXCEPT !.virtualNodes = m.vns], vnodes |-> old]

\* hashRingState.insert: the state after the call, the new virtual nodes
\* and the error.
insert(s, nodes) ==
    LET m == insertVirtualNodes(s, nodes)
    IN  IF m.err /= Nil THEN m ELSE [m EXCEPT !.state = fixReplicaOwners(m.state)]

\* hashRingState.remove.
remove(s, nodes) ==
    LET m == removeVirtualNodes(s, nodes)
    IN  IF m.err /= Nil THEN m ELSE [m EXCEPT !.state = fixReplicaOwners(m.state)]

\* ---------------------------------------------------------------- results

\* What a call returns: out is "ok" or "panic"; val holds the value (empty
\* for a nil pointer or nil slice); err is the error, Nil for none.
Ok(v) == [out |-> "ok", val |-> <<v>>, err |-> Nil]
NilResult == [out |-> "ok", val |-> <<>>, err |-> Nil]
Err(e) == [out |-> "ok", val |-> <<>>, err |-> e]
Panicked == [out |-> "panic", val |-> <<>>, err |-> Nil]

\* What a lookup without an error result does on a ring with no virtual
\* nodes is left undefined: a nil result or a panic.
EmptyOutcomes == {NilResult, Panicked}

\* The 0-based index of the virtual node a key is assigned to (non-empty ring).
indexForKey(s, key) ==
    LET i == searchIndex(s.virtualNodes, key)
    IN  IF i = Len(s.virtualNodes) THEN 0 ELSE i

\* hashRingState.virtualNodeForKey; u is the outcome on an empty ring.
virtualNodeForKey(s, key, u) ==
    IF Len(s.virtualNodes) = 0 THEN u
    ELSE Ok(s.virtualNodes[indexForKey(s, key) + 1])

\* hashRingState.nodesForKey: the replica owners of the key's virtual node
\* (a nil key or a map miss yields a nil slice).
nodesForKey(s, key, u) ==
    LET r == virtualNodeForKey(s, key, u)
    IN  IF r.out = "panic" THEN Panicked
        ELSE IF r.val = <<>> THEN NilResult
        ELSE IF r.val[1] \in DOMAIN s.replicaOwners THEN Ok(s.replicaOwners[r.val[1]])
        ELSE NilResult

\* hashRingState.hasVirtualNode: an exact binary-search hit.
hasVirtualNode(s, key) == Ok(found(s.virtualNodes, key))

\* hashRingState.predecessor / successor.
predecessor(s, key) ==
    LET n == Len(s.virtualNodes)
    IN  IF n = 0 THEN Err(ErrEmptyRing)
        ELSE Ok(s.virtualNodes[((indexForKey(s, key) + n - 1) % n) + 1])

successor(s, key) ==
    LET n == Len(s.virtualNodes)
    IN  IF n = 0 THEN Err(ErrEmptyRing)
        ELSE Ok(s.virtualNodes[((indexForKey(s, key) + 1) % n) + 1])

\* A call that does not return.
Hangs == [out |-> "hang", val |-> <<>>, err |-> Nil]

\* Walk from 0-based index j in steps of d (n-1: backwards, 1: forwards)
\* to the first virtual node of another owner; a walk that has visited
\* every virtual node and goes on never ends.
RECURSIVE walkNode(_, _, _, _, _)
walkNode(vns, owner, j, d, visits) ==
    IF visits >= Len(vns) THEN Hangs
    ELSE IF vns[j + 1].node /= owner THEN Ok(vns[j + 1])
    ELSE walkNode(vns, owner, (j + d) % Len(vns), d, visits + 1)

\* hashRingState.predecessorNode / successorNode.
predecessorNode(s, key) ==
    LET n == Len(s.virtualNodes)
        i == indexForKey(s, key)
    IN  IF n = 0 THEN Err(ErrEmptyRing)
        ELSE IF size(s) = 1 THEN Err(ErrSingleOwner)
        ELSE walkNode(s.virtualNodes, s.virtualNodes[i + 1].node, (i + n - 1) % n, n - 1, 0)

successorNode(s, key) ==
    LET n == Len(s.virtualNodes)
        i == indexForKey(s, key)
    IN  IF n = 0 THEN Err(ErrEmptyRing)
        ELSE IF size(s) = 1 THEN Err(ErrSingleOwner)
        ELSE walkNode(s.virtualNodes, s.virtualNodes[i + 1].node, (i + 1) % n, 1, 0)

\* ------------------------------------------------------------- the heap

\* Pointers to ring states (*hashRingState) and to rings (*HashRing); 0 is nil.
StateIds == 1..(4 + MaxReaders)
RingIds == {1, 2}

NoState ==
    [hash |-> NilHash, virtualNodeCount |-> 0, replicationFactor |-> 0,
     virtualNodes |-> <<>>, replicaOwners |-> <<>>]
NoRing == [state |-> 0, hash |-> NilHash]

\* The batches of nodes given to NewHashRing, Insert and Remove.
Batches ==
    {<<>>, <<"A">>, <<"B">>, <<"C">>, <<"A", "B">>, <<"B", "C">>, <<"C", "A">>, <<"A", "A">>}

\* The integers given to NewHashRing.
RFArgs == {0} \cup (1..MaxRF) \cup {MaxUint8, MaxUint8 + 1}
VNCArgs == {0} \cup (1..MaxVNC) \cup {MaxUint16, MaxUint16 + 1}

\* Nodes are put only on rings whose configuration is within the bounds.
Modelled(rf, vnc, nodes) == (rf <= MaxRF /\ vnc <= MaxVNC) \/ Len(nodes) = 0

\* The batches of the specification of Clone.
CloneBatches == {<<"A">>, <<"B", "C">>}

VARIABLES
    rings,      \* the rings: the state each publishes (atomic.Value) and its hash
    states,     \* the ring states on the heap
    orig,       \* the ring NewHashRing returned (0 before)
    clone,      \* the ring Clone returned (0 before)
    call,       \* the last call and what it returned
    trip,       \* a successful Insert and the Remove of the same nodes after it
    writer,     \* the writer inside Insert or Remove: its position and locals
    readers,    \* the readers inside a read: position, loaded pointer, what they saw
    rival,      \* a second writer, not serialized with the first
    cursor,     \* a pull cursor: the state it is bound to and its position
    push,       \* a push iteration: the producing task, its channel and its consumer
    log         \* the order of the completed stores and what each reader saw last

vars == <<rings, states, orig, clone, call, trip, writer, readers, rival, cursor, push, log>>

\* The second writer and the iterations.
apart == <<rival, cursor, push>>

\* The callers that run a call step by step.
conc == <<writer, readers, apart, log>>

Handles == {"orig", "clone"}
Handle(t) == IF t = "orig" THEN orig ELSE clone

\* r.state.Load()
Load(r) == rings[r].state

\* The states still referenced; the others are garbage.
Live(rs, roots) == {rs[r].state : r \in RingIds} \cup roots
Collect(st, live) == [p \in StateIds |-> IF p \in live THEN st[p] ELSE NoState]

\* The pointer of a newly allocated state.
Alloc(st) == CHOOSE p \in StateIds : st[p].hash = NilHash /\ \A q \in 1..(p - 1) : st[q].hash /= NilHash

NoCall ==
    [op |-> "none", ring |-> "orig", nodes |-> <<>>, key |-> <<>>,
     hashFunc |-> NilHash, rf |-> 0, vnc |-> 0,
     out |-> "ok", val |-> <<>>, err |-> Nil]

Called(op, t, nodes, key, res) ==
    [NoCall EXCEPT !.op = op, !.ring = t, !.nodes = nodes, !.key = key,
                   !.out = res.out, !.val = res.val, !.err = res.err]

\* The writer and a reader outside a call.
IdleWriter ==
    [pc |-> "idle", op |-> "none", nodes |-> <<>>, old |-> 0, new |-> 0,
     err |-> Nil, vnodes |-> <<>>]
IdleReader == [pc |-> "idle", ptr |-> 0, snap |-> NoState, vns |-> <<>>, owners |-> <<>>]
Readers == 1..MaxReaders

NoTrip == [stage |-> "none", ring |-> "orig", nodes |-> <<>>, names |-> <<>>]

\* No cursor: kind is "forward" or "reverse" once one is created; seen is
\* what it yielded so far, snap the state as it was at its creation.
NoCursor ==
    [kind |-> "none", ring |-> 0, curr |-> 0, ended |-> FALSE, seen |-> <<>>, snap |-> NoState]

\* No push iteration.  Started, pc is "running" until the producing task
\* returns ("done"); curr is the index of the virtual node it sends next;
\* listens tells that it was given the caller's stop channel, stop that the
\* caller signalled it; the consumer is "receiving" until it leaves ("gone").
NoPush ==
    [pc |-> "none", reversed |-> FALSE, ring |-> 0, curr |-> 0, listens |-> FALSE,
     stop |-> FALSE, consumer |-> "none", received |-> <<>>, snap |-> NoState]

\* Nothing stored yet: stores counts the completed stores, version is the
\* store that published a state, last the version each reader loaded last.
NoLog ==
    [stores |-> 0, version |-> [p \in StateIds |-> 0], last |-> [i \in Readers |-> 0]]

\* The names of the virtual nodes of a state, in order.
Names(s) == [i \in 1..Len(s.virtualNodes) |-> s.virtualNodes[i].name]

Init ==
    /\ rings = [r \in RingIds |-> NoRing]
    /\ states = [p \in StateIds |-> NoState]
    /\ orig = 0
    /\ clone = 0
    /\ call = NoCall
    /\ trip = NoTrip
    /\ writer = IdleWriter
    /\ readers = [i \in Readers |-> IdleReader]
    /\ rival = IdleWriter
    /\ cursor = NoCursor
    /\ push = NoPush
    /\ log = NoLog

\* ------------------------------------------------------------ the facade

ErrNilHash == "hashFunc cannot be nil"
ErrReplicationFactor == "replicationFactor value not in range"
ErrVirtualNodeCount == "virtualNodeCount value not in range"

\* The arguments NewHashRing rejects, and the error it returns for them.
InvalidArguments(hashFunc, replicationFactor, virtualNodeCount) ==
    IF hashFunc = NilHash THEN ErrNilHash
    ELSE IF replicationFactor < 1 \/ replicationFactor > MaxUint8 THEN ErrReplicationFactor
    ELSE IF virtualNodeCount < 1 \/ virtualNodeCount > MaxUint16 THEN ErrVirtualNodeCount
    ELSE Nil

\* NewHashRing after the checks of its arguments (e is their error).
Construct(hashFunc, replicationFactor, virtualNodeCount, nodes, e) ==
    /\ orig = 0
    /\ Modelled(replicationFactor, virtualNodeCount, nodes)
    /\ LET args == [NoCall EXCEPT !.op = "NewHashRing", !.nodes = nodes, !.hashFunc = hashFunc,
                                  !.rf = replicationFactor, !.vnc = virtualNodeCount]
           empty == [hash |-> hashFunc,
                     virtualNodeCount |-> virtualNodeCount % (MaxUint16 + 1),
                     replicationFactor |-> replicationFactor % (MaxUint8 + 1),
                     virtualNodes |-> <<>>,
                     replicaOwners |-> <<>>]
           \* the error of insert is dropped
           newState == IF Len(nodes) > 0 THEN insert(empty, nodes).state ELSE empty
           p == Alloc(states)
       IN  IF e /= Nil
           THEN /\ call' = [args EXCEPT !.err = e]
                /\ UNCHANGED <<rings, states, orig>>
           ELSE /\ rings' = [rings EXCEPT ![1] = [state |-> p, hash |-> hashFunc]]
                /\ states' = [states EXCEPT ![p] = newState]
                /\ orig' = 1
                /\ call' = [args EXCEPT !.val = <<1>>]
    /\ trip' = NoTrip
    /\ UNCHANGED <<clone, conc>>

\* Mutant: the upper limits of the two integers are not checked.
NewHashRingNoUpperLimit(hashFunc, replicationFactor, virtualNodeCount, nodes) ==
    Construct(hashFunc, replicationFactor, virtualNodeCount, nodes,
              IF hashFunc = NilHash THEN ErrNilHash
              ELSE IF replicationFactor < 1 THEN ErrReplicationFactor
              ELSE IF virtualNodeCount < 1 THEN ErrVirtualNodeCount
              ELSE Nil)

NewHashRing(hashFunc, replicationFactor, virtualNodeCount, nodes) ==
    Construct(hashFunc, replicationFactor, virtualNodeCount, nodes,
              InvalidArguments(hashFunc, replicationFactor, virtualNodeCount))

\* Mutant: the ring itself is returned.
CloneReturnsReceiver(t) ==
    /\ Handle(t) /= 0
    /\ clone' = Handle(t)
    /\ call' = Called("Clone", t, <<>>, <<>>, Ok(Handle(t)))
    /\ trip' = NoTrip
    /\ UNCHANGED <<rings, states, orig, conc>>

\* Clone: a new ring publishing a repaired deep copy of the loaded state.
Clone(t) ==
    /\ Handle(t) /= 0
    /\ LET newState == fixReplicaOwners(derive(states[Load(Handle(t))]))
           p == Alloc(states)
           rs == [rings EXCEPT ![2] = [state |-> p, hash |-> newState.hash]]
       IN  /\ rings' = rs
           /\ states' = Collect([states EXCEPT ![p] = newState], Live(rs, {}))
           /\ clone' = 2
           /\ call' = Called("Clone", t, <<>>, <<>>, Ok(2))
    /\ trip' = NoTrip
    /\ UNCHANGED <<orig, conc>>

\* The end of Insert and Remove: the new state is stored unless the state
\* operation failed; the trip records an Insert and the Remove that undoes it.
Publish(t, op, nodes, res, store) ==
    LET r == Handle(t)
        p == Alloc(states)
        rs == [rings EXCEPT ![r].state = p]
        before == Names(states[Load(r)])
    IN  /\ IF store
           THEN /\ rings' = rs
                /\ states' = Collect([states EXCEPT ![p] = res.state], Live(rs, {}))
           ELSE UNCHANGED <<rings, states>>
        /\ call' = Called(op, t, nodes, <<>>,
                          IF res.err /= Nil THEN Err(res.err) ELSE Ok(res.vnodes))
        /\ trip' = IF op = "Insert" /\ res.err = Nil
                   THEN [stage |-> "inserted", ring |-> t, nodes |-> nodes, names |-> before]
                   ELSE IF op = "Remove" /\ trip.stage = "inserted"
                           /\ trip.ring = t /\ trip.nodes = nodes
                   THEN [trip EXCEPT !.stage = "removed"]
                   ELSE NoTrip
        /\ UNCHANGED <<orig, clone, conc>>

\* Mutant: the new state is stored whether or not insert failed.
InsertAlwaysStores(t, nodes) ==
    /\ Handle(t) /= 0
    /\ LET oldState == Load(Handle(t))
           newState == derive(states[oldState])
           res == insert(newState, nodes)
       IN  /\ Modelled(newState.replicationFactor, newState.virtualNodeCount, nodes)
           /\ Publish(t, "Insert", nodes, res, TRUE)

Insert(t, nodes) ==
    /\ Handle(t) /= 0
    /\ LET oldState == Load(Handle(t))
           newState == derive(states[oldState])
           res == insert(newState, nodes)
       IN  /\ Modelled(newState.replicationFactor, newState.virtualNodeCount, nodes)
           /\ Publish(t, "Insert", nodes, res, res.err = Nil)

\* Mutant: the new state is stored whether or not remove failed.
RemoveAlwaysStores(t, nodes) ==
    /\ Handle(t) /= 0
    /\ LET oldState == Load(Handle(t))
           newState == derive(states[oldState])
           res == remove(newState, nodes)
       IN  /\ Modelled(newState.replicationFactor, newState.virtualNodeCount, nodes)
           /\ Publish(t, "Remove", nodes, res, TRUE)

\* Mutant: a copy of the old state is stored instead of the new one.
RemoveStoresOldState(t, nodes) ==
    /\ Handle(t) /= 0
    /\ LET oldState == Load(Handle(t))
           newState == derive(states[oldState])
           res == remove(newState, nodes)
       IN  /\ Modelled(newState.replicationFactor, newState.virtualNodeCount, nodes)
           /\ Publish(t, "Remove", nodes, [res EXCEPT !.state = derive(states[oldState])],
                      res.err = Nil)

Remove(t, nodes) ==
    /\ Handle(t) /= 0
    /\ LET oldState == Load(Handle(t))
           newState == derive(states[oldState])
           res == remove(newState, nodes)
       IN  /\ Modelled(newState.replicationFactor, newState.virtualNodeCount, nodes)
           /\ Publish(t, "Remove", nodes, res, res.err = Nil)

\* A read: one atomic load, then the operation on the loaded state.
Read(t, op, key, res) ==
    /\ Handle(t) /= 0
    /\ call' = Called(op, t, <<>>, key, res)
    /\ trip' = NoTrip
    /\ UNCHANGED <<rings, states, orig, clone, conc>>

Loaded(t) == states[Load(Handle(t))]

Size(t) == Handle(t) /= 0 /\ Read(t, "Size", <<>>, Ok(size(Loaded(t))))

\* Mutant: only the owner of the key's virtual node is returned.
NodesForKeyOwnerOnly(t, key, u) ==
    /\ Handle(t) /= 0
    /\ LET r == virtualNodeForKey(Loaded(t), key, u)
       IN  Read(t, "NodesForKey", key, IF r.val = <<>> THEN r ELSE Ok(<<r.val[1].node>>))

NodesForKey(t, key, u) == Handle(t) /= 0 /\ Read(t, "NodesForKey", key, nodesForKey(Loaded(t), key, u))

\* Mutant: the successor of the key's virtual node is returned.
VirtualNodeForKeyCallsSuccessor(t, key, u) ==
    Handle(t) /= 0 /\ Read(t, "VirtualNodeForKey", key, successor(Loaded(t), key))

VirtualNodeForKey(t, key, u) ==
    Handle(t) /= 0 /\ Read(t, "VirtualNodeForKey", key, virtualNodeForKey(Loaded(t), key, u))


\* Mutant: Predecessor returns the successor.
PredecessorCallsSuccessor(t, key) ==
    Handle(t) /= 0 /\ Read(t, "Predecessor", key, successor(Loaded(t), key))

Predecessor(t, key) == Handle(t) /= 0 /\ Read(t, "Predecessor", key, predecessor(Loaded(t), key))
Successor(t, key) == Handle(t) /= 0 /\ Read(t, "Successor", key, successor(Loaded(t), key))

\* Mutant: the predecessor, whoever owns it.
PredecessorNodeNoWalk(t, key) ==
    Handle(t) /= 0 /\ Read(t, "PredecessorNode", key, predecessor(Loaded(t), key))

PredecessorNode(t, key) ==
    Handle(t) /= 0 /\ Read(t, "PredecessorNode", key, predecessorNode(Loaded(t), key))

\* Mutant: SuccessorNode walks backwards.
SuccessorNodeCallsPredecessorNode(t, key) ==
    Handle(t) /= 0 /\ Read(t, "SuccessorNode", key, predecessorNode(Loaded(t), key))

SuccessorNode(t, key) ==
    Handle(t) /= 0 /\ Read(t, "SuccessorNode", key, successorNode(Loaded(t), key))

HasVirtualNode(t, key) ==
    Handle(t) /= 0 /\ Read(t, "HasVirtualNode", key, hasVirtualNode(Loaded(t), key))

\* One ring, written and read by one caller, each call run to its end.
Next ==
    \/ \E h \in HashFuncs \cup {NilHash}, rf \in RFArgs, vnc \in VNCArgs, nodes \in Batches :
          NewHashRing(h, rf, vnc, nodes)
    \/ \E nodes \in Batches : Insert("orig", nodes)
    \/ \E nodes \in Batches : Remove("orig", nodes)
    \/ Size("orig")
    \/ \E key \in Keys, u \in EmptyOutcomes : NodesForKey("orig", key, u)
    \/ \E key \in Keys, u \in EmptyOutcomes : VirtualNodeForKey("orig", key, u)
    \/ \E key \in Keys : Predecessor("orig", key)
    \/ \E key \in Keys : Successor("orig", key)
    \/ \E key \in Keys : PredecessorNode("orig", key)
    \/ \E key \in Keys : SuccessorNode("orig", key)
    \/ \E key \in Keys : HasVirtualNode("orig", key)

Spec == Init /\ [][Next]_vars

\* A ring and its clone, each written by one caller.
NextClone ==
    \/ \E h \in HashFuncs, rf \in 1..MaxRF, vnc \in 1..MaxVNC, nodes \in CloneBatches \cup {<<>>} :
          NewHashRing(h, rf, vnc, nodes)
    \/ Clone("orig")
    \/ \E t \in Handles, nodes \in CloneBatches : Insert(t, nodes)
    \/ \E t \in Handles, nodes \in CloneBatches : Remove(t, nodes)

SpecClone == Init /\ [][NextClone]_vars

\* ------------------------------------------- one writer, concurrent readers

\* The batches of the concurrent specification: the writer's, and those
\* the ring is constructed with.
ConcBatches == {<<"A">>}
ConcInitial == {<<>>, <<"B", "C">>}

\* The states the callers inside a call, a cursor and a producing task
\* still hold.
HeldBy(w, v, rd, c, p) ==
    {w.old, w.new, v.old, v.new, c.ring, p.ring} \cup {rd[i].ptr : i \in Readers}
Held(w, rd) == HeldBy(w, rival, rd, cursor, push)

\* oldState := r.state.Load(); newState := oldState.derive()
BeginWrite(op, nodes, copy) ==
    /\ orig /= 0
    /\ writer.pc = "idle"
    /\ LET oldState == Load(orig)
           p == IF copy THEN Alloc(states) ELSE oldState
       IN  /\ Modelled(states[oldState].replicationFactor, states[oldState].virtualNodeCount, nodes)
           /\ states' = IF copy THEN [states EXCEPT ![p] = derive(states[oldState])] ELSE states
           /\ writer' = [IdleWriter EXCEPT !.pc = "derived", !.op = op, !.nodes = nodes,
                                           !.old = oldState, !.new = p]
    /\ UNCHANGED <<rings, orig, clone, call, trip, readers, apart, log>>

\* Mutant: Insert works on the loaded state itself.
InsertBeginNoDerive(nodes) == BeginWrite("Insert", nodes, FALSE)

InsertBegin(nodes) == BeginWrite("Insert", nodes, TRUE)

RemoveBegin(nodes) == BeginWrite("Remove", nodes, TRUE)

\* newState.insert / newState.remove, first half: the virtual nodes.
MergeStep ==
    /\ writer.pc = "derived"
    /\ LET m == IF writer.op = "Insert"
                THEN insertVirtualNodes(states[writer.new], writer.nodes)
                ELSE removeVirtualNodes(states[writer.new], writer.nodes)
       IN  /\ states' = [states EXCEPT ![writer.new] = m.state]
           /\ writer' = [writer EXCEPT !.pc = IF m.err /= Nil THEN "failed" ELSE "merged",
                                       !.err = m.err, !.vnodes = m.vnodes]
    /\ UNCHANGED <<rings, orig, clone, call, trip, readers, apart, log>>

\* newState.insert / newState.remove, second half: the replica owners.
FixStep ==
    /\ writer.pc = "merged"
    /\ states' = [states EXCEPT ![writer.new] = fixReplicaOwners(states[writer.new])]
    /\ writer' = [writer EXCEPT !.pc = "fixed"]
    /\ UNCHANGED <<rings, orig, clone, call, trip, readers, apart, log>>

\* Mutant: the writer returns its virtual nodes without the store.
StoreStepForgets ==
    /\ writer.pc = "fixed"
    /\ states' = Collect(states, Live(rings, Held(IdleWriter, readers)))
    /\ writer' = IdleWriter
    /\ UNCHANGED <<rings, orig, clone, call, trip, readers, apart>>

\* r.state.Store(newState); return newVnodes, nil (the log is left to the
\* specification).
StoreStep ==
    /\ writer.pc = "fixed"
    /\ LET rs == [rings EXCEPT ![orig].state = writer.new]
       IN  /\ rings' = rs
           /\ states' = Collect(states, Live(rs, Held(IdleWriter, readers)))
    /\ writer' = IdleWriter
    /\ UNCHANGED <<orig, clone, call, trip, readers, apart>>

\* return nil, err
FailStep ==
    /\ writer.pc = "failed"
    /\ states' = Collect(states, Live(rings, Held(IdleWriter, readers)))
    /\ writer' = IdleWriter
    /\ UNCHANGED <<rings, orig, clone, call, trip, readers, apart, log>>

\* A reader: r.state.Load(), ... (the log is left to the specification)
ReadLoad(i) ==
    /\ orig /= 0
    /\ readers[i].pc = "idle"
    /\ readers' = [readers EXCEPT ![i] =
                      [IdleReader EXCEPT !.pc = "loaded", !.ptr = Load(orig),
                                         !.snap = states[Load(orig)]]]
    /\ UNCHANGED <<rings, states, orig, clone, call, trip, writer, apart>>

\* ... then the virtual nodes of the loaded state, ...
ReadVirtualNodes(i) ==
    /\ readers[i].pc = "loaded"
    /\ readers' = [readers EXCEPT ![i].pc = "scanned",
                                  ![i].vns = states[readers[i].ptr].virtualNodes]
    /\ UNCHANGED <<rings, states, orig, clone, call, trip, writer, apart, log>>

\* ... then its replica owners, ...
ReadReplicaOwners(i) ==
    /\ readers[i].pc = "scanned"
    /\ readers' = [readers EXCEPT ![i].pc = "done",
                                  ![i].owners = states[readers[i].ptr].replicaOwners]
    /\ UNCHANGED <<rings, states, orig, clone, call, trip, writer, apart, log>>

\* ... and the return: the loaded state is no longer held.
ReadReturn(i) ==
    /\ readers[i].pc = "done"
    /\ LET rd == [readers EXCEPT ![i] = IdleReader]
       IN  /\ readers' = rd
           /\ states' = Collect(states, Live(rings, Held(writer, rd)))
    /\ UNCHANGED <<rings, orig, clone, call, trip, writer, apart, log>>

NextConc ==
    \/ \E nodes \in ConcInitial : NewHashRing("scatter", MaxRF, MaxVNC, nodes)
    \/ \E nodes \in ConcBatches : InsertBegin(nodes)
    \/ \E nodes \in ConcBatches : RemoveBegin(nodes)
    \/ MergeStep
    \/ FixStep
    \/ StoreStep /\ UNCHANGED log
    \/ FailStep
    \/ \E i \in Readers : ReadLoad(i) /\ UNCHANGED log
    \/ \E i \in Readers : ReadVirtualNodes(i)
    \/ \E i \in Readers : ReadReplicaOwners(i)
    \/ \E i \in Readers : ReadReturn(i)

SpecConc == Init /\ [][NextConc]_vars

\* ------------------------------------------------------------ pull cursors

\* A cursor bound to the loaded state, at position curr.
NewCursor(kind, curr) ==
    /\ orig /= 0
    /\ cursor.kind = "none"
    /\ cursor' = [NoCursor EXCEPT !.kind = kind, !.ring = Load(orig), !.curr = curr,
                                   !.snap = states[Load(orig)]]
    /\ UNCHANGED <<rings, states, orig, clone, call, trip, writer, readers, rival, push, log>>

\* NewVirtualNodesIterator: curr is 0.
NewVirtualNodesIterator == NewCursor("forward", 0)

\* Mutant: the reverse cursor starts at 0 as the forward one does.
NewVirtualNodesReverseIteratorFromZero == NewCursor("reverse", 0)

\* NewVirtualNodesReverseIterator: curr is the last index.
NewVirtualNodesReverseIterator ==
    orig /= 0 /\ NewCursor("reverse", Len(states[Load(orig)].virtualNodes) - 1)

\* One step of a cursor: the virtual node at curr of the state it is bound
\* to, and curr one further in its direction; the end when curr is past
\* either end.
CursorNext ==
    /\ cursor.kind /= "none"
    /\ ~cursor.ended
    /\ LET vns == states[cursor.ring].virtualNodes
       IN  cursor' = IF cursor.curr < 0 \/ cursor.curr >= Len(vns)
                     THEN [cursor EXCEPT !.ended = TRUE]
                     ELSE [cursor EXCEPT !.seen = Append(@, vns[cursor.curr + 1]),
                                         !.curr = IF cursor.kind = "forward" THEN @ + 1 ELSE @ - 1]
    /\ UNCHANGED <<rings, states, orig, clone, call, trip, writer, readers, rival, push, log>>

\* The caller lets go of a cursor that reported the end.
CursorDrop ==
    /\ cursor.kind /= "none"
    /\ cursor.ended
    /\ cursor' = NoCursor
    /\ states' = Collect(states, Live(rings, HeldBy(writer, rival, readers, NoCursor, push)))
    /\ UNCHANGED <<rings, orig, clone, call, trip, writer, readers, rival, push, log>>

\* One writer, step by step, and a caller iterating with cursors.
NextCursor ==
    \/ \E h \in HashFuncs, nodes \in ConcInitial : NewHashRing(h, MaxRF, MaxVNC, nodes)
    \/ \E nodes \in ConcBatches : InsertBegin(nodes)
    \/ \E nodes \in ConcBatches : RemoveBegin(nodes)
    \/ MergeStep
    \/ FixStep
    \/ StoreStep /\ UNCHANGED log
    \/ FailStep
    \/ NewVirtualNodesIterator
    \/ NewVirtualNodesReverseIterator
    \/ CursorNext
    \/ CursorDrop

SpecCursor == Init /\ [][NextCursor]_vars

\* ------------------------------------------------- the order of the stores

\* The store of a successful Insert or Remove, logged: the state the writer
\* built is that of one more store.
StoreLogged ==
    /\ StoreStep
    /\ log' = [log EXCEPT !.stores = @ + 1, !.version[writer.new] = log.stores + 1]

\* The load of a read, logged: the store whose state the reader loaded.
ReadLoadLogged(i) ==
    /\ ReadLoad(i)
    /\ log' = [log EXCEPT !.last[i] = log.version[readers'[i].ptr]]

\* One writer, step by step, for MaxStores stores, and the readers.
NextOrder ==
    \/ \E nodes \in ConcInitial : NewHashRing("scatter", MaxRF, MaxVNC, nodes)
    \/ \E nodes \in ConcBatches : log.stores < MaxStores /\ InsertBegin(nodes)
    \/ \E nodes \in ConcBatches : log.stores < MaxStores /\ RemoveBegin(nodes)
    \/ MergeStep
    \/ FixStep
    \/ StoreLogged
    \/ FailStep
    \/ \E i \in Readers : ReadLoadLogged(i)
    \/ \E i \in Readers : ReadVirtualNodes(i)
    \/ \E i \in Readers : ReadReplicaOwners(i)
    \/ \E i \in Readers : ReadReturn(i)

SpecOrder == Init /\ [][NextOrder]_vars

\* ------------------------------------------------------ colliding names

\* One ring whose hash function may make names collide, written by one
\* caller.
NextClash ==
    \/ \E h \in ClashFuncs \cup {"grouped"}, rf \in 1..MaxRF, vnc \in 1..MaxVNC, nodes \in Batches :
          NewHashRing(h, rf, vnc, nodes)
    \/ \E nodes \in Batches : Insert("orig", nodes)
    \/ \E nodes \in Batches : Remove("orig", nodes)

SpecClash == Init /\ [][NextClash]_vars

\* --------------------------------------------------------- push iteration

\* VirtualNodes / VirtualNodesReversed: the producing task is started on the
\* loaded state with the stop channel, and its channel returned.
StartPush(reversed, listens) ==
    /\ orig /= 0
    /\ push.pc = "none"
    /\ LET s == states[Load(orig)]
       IN  push' = [NoPush EXCEPT !.pc = "running", !.reversed = reversed, !.ring = Load(orig),
                                  !.curr = IF reversed THEN Len(s.virtualNodes) - 1 ELSE 0,
                                  !.listens = listens, !.consumer = "receiving", !.snap = s]
    /\ UNCHANGED <<rings, states, orig, clone, call, trip, writer, readers, rival, cursor, log>>

\* Mutant: the producing task is started without the caller's stop channel.
VirtualNodesDropsStop == StartPush(FALSE, FALSE)

VirtualNodes == StartPush(FALSE, TRUE)

VirtualNodesReversed == StartPush(TRUE, TRUE)

\* The producing task has virtual nodes left to send.
Pending == push.curr >= 0 /\ push.curr < Len(states[push.ring].virtualNodes)

\* The producing task sends the virtual node at curr and the consumer
\* receives it: the channel has no buffer, the two meet.
Send ==
    /\ push.pc = "running" /\ Pending
    /\ push.consumer = "receiving"
    /\ push' = [push EXCEPT !.received = Append(@, states[push.ring].virtualNodes[push.curr + 1]),
                             !.curr = IF push.reversed THEN @ - 1 ELSE @ + 1]
    /\ UNCHANGED <<rings, states, orig, clone, call, trip, writer, readers, rival, cursor, log>>

\* The producing task, about to send, finds the stop channel signalled and
\* returns.
ProducerStop ==
    /\ push.pc = "running" /\ Pending
    /\ push.listens /\ push.stop
    /\ push' = [push EXCEPT !.pc = "done"]
    /\ UNCHANGED <<rings, states, orig, clone, call, trip, writer, readers, rival, cursor, log>>

\* The producing task has sent every virtual node: it closes its channel
\* and returns.
ProducerClose ==
    /\ push.pc = "running" /\ ~Pending
    /\ push' = [push EXCEPT !.pc = "done"]
    /\ UNCHANGED <<rings, states, orig, clone, call, trip, writer, readers, rival, cursor, log>>

\* The consumer signals the stop channel.
SignalStop ==
    /\ push.pc /= "none"
    /\ ~push.stop
    /\ push' = [push EXCEPT !.stop = TRUE]
    /\ UNCHANGED <<rings, states, orig, clone, call, trip, writer, readers, rival, cursor, log>>

\* The consumer stops receiving.
Leave ==
    /\ push.consumer = "receiving"
    /\ push' = [push EXCEPT !.consumer = "gone"]
    /\ UNCHANGED <<rings, states, orig, clone, call, trip, writer, readers, rival, cursor, log>>

\* A ring and one push iteration over it.
NextPush ==
    \/ \E h \in HashFuncs, rf \in 1..MaxRF, vnc \in 1..MaxVNC, nodes \in CloneBatches \cup {<<>>} :
          NewHashRing(h, rf, vnc, nodes)
    \/ VirtualNodes
    \/ VirtualNodesReversed
    \/ Send
    \/ ProducerStop
    \/ ProducerClose
    \/ SignalStop
    \/ Leave

\* The producing task is scheduled: it returns when it can, whatever its
\* consumer does.
SpecPush ==
    Init /\ [][NextPush]_vars /\ WF_vars(ProducerStop) /\ WF_vars(ProducerClose)

\* ------------------------------------------------------------ two writers

\* The batches of the second writer.
RivalBatches == {<<"B">>}

\* The second writer runs the same Insert and Remove, step by step; nothing
\* in the ring keeps the two apart.
RivalBegin(op, nodes) ==
    /\ orig /= 0
    /\ rival.pc = "idle"
    /\ LET oldState == Load(orig)
           p == Alloc(states)
       IN  /\ Modelled(states[oldState].replicationFactor, states[oldState].virtualNodeCount, nodes)
           /\ states' = [states EXCEPT ![p] = derive(states[oldState])]
           /\ rival' = [IdleWriter EXCEPT !.pc = "derived", !.op = op, !.nodes = nodes,
                                          !.old = oldState, !.new = p]
    /\ UNCHANGED <<rings, orig, clone, call, trip, writer, readers, cursor, push, log>>

RivalMerge ==
    /\ rival.pc = "derived"
    /\ LET m == IF rival.op = "Insert"
                THEN insertVirtualNodes(states[rival.new], rival.nodes)
                ELSE removeVirtualNodes(states[rival.new], rival.nodes)
       IN  /\ states' = [states EXCEPT ![rival.new] = m.state]
           /\ rival' = [rival EXCEPT !.pc = IF m.err /= Nil THEN "failed" ELSE "merged",
                                     !.err = m.err, !.vnodes = m.vnodes]
    /\ UNCHANGED <<rings, orig, clone, call, trip, writer, readers, cursor, push, log>>

RivalFix ==
    /\ rival.pc = "merged"
    /\ states' = [states EXCEPT ![rival.new] = fixReplicaOwners(states[rival.new])]
    /\ rival' = [rival EXCEPT !.pc = "fixed"]
    /\ UNCHANGED <<rings, orig, clone, call, trip, writer, readers, cursor, push, log>>

\* Mutant: the second writer stores the state it loaded.
RivalStoreStoresOld ==
    /\ rival.pc = "fixed"
    /\ LET rs == [rings EXCEPT ![orig].state = rival.old]
       IN  /\ rings' = rs
           /\ states' = Collect(states, Live(rs, HeldBy(writer, IdleWriter, readers, cursor, push)))
    /\ rival' = IdleWriter
    /\ log' = [log EXCEPT !.stores = @ + 1, !.version[rival.old] = log.stores + 1]
    /\ UNCHANGED <<orig, clone, call, trip, writer, readers, cursor, push>>

\* r.state.Store(newState), whatever was stored since the Load.
RivalStore ==
    /\ rival.pc = "fixed"
    /\ LET rs == [rings EXCEPT ![orig].state = rival.new]
       IN  /\ rings' = rs
           /\ states' = Collect(states, Live(rs, HeldBy(writer, IdleWriter, readers, cursor, push)))
    /\ rival' = IdleWriter
    /\ log' = [log EXCEPT !.stores = @ + 1, !.version[rival.new] = log.stores + 1]
    /\ UNCHANGED <<orig, clone, call, trip, writer, readers, cursor, push>>

RivalFail ==
    /\ rival.pc = "failed"
    /\ states' = Collect(states, Live(rings, HeldBy(writer, IdleWriter, readers, cursor, push)))
    /\ rival' = IdleWriter
    /\ UNCHANGED <<rings, orig, clone, call, trip, writer, readers, cursor, push, log>>

\* Two writers of one ring, each for as long as fewer than MaxStores stores
\* were completed.
NextWriters ==
    \/ \E nodes \in ConcInitial : NewHashRing("scatter", MaxRF, MaxVNC, nodes)
    \/ \E nodes \in ConcBatches : log.stores < MaxStores /\ InsertBegin(nodes)
    \/ \E nodes \in ConcBatches : log.stores < MaxStores /\ RemoveBegin(nodes)
    \/ MergeStep
    \/ FixStep
    \/ StoreLogged
    \/ FailStep
    \/ \E nodes \in RivalBatches : log.stores < MaxStores /\ RivalBegin("Insert", nodes)
    \/ \E nodes \in RivalBatches : log.stores < MaxStores /\ RivalBegin("Remove", nodes)
    \/ RivalMerge
    \/ RivalFix
    \/ RivalStore
    \/ RivalFail

SpecWriters == Init /\ [][NextWriters]_vars

\* ---------------------------------------------------------------- claims

\* The nodes of a batch.
BatchNodes(nodes) == {nodes[i] : i \in 1..Len(nodes)}

\* The state the original ring publishes, and the distinct nodes on it.
Published == states[Load(orig)]
PublishedOwners == owners(Published.virtualNodes)

Min(a, b) == IF a < b THEN a ELSE b

\* C1: with one writer and concurrent readers, the state a reader loaded is
\* never changed while the reader holds it, and what the reader reads from
\* it is the state as it was loaded; the published state is never changed in
\* place, and a store replaces it by the complete result of the writer's
\* Insert or Remove on it.
C1_NoTornSnapshot ==
    /\ [](\A i \in Readers :
             /\ readers[i].pc /= "idle" => states[readers[i].ptr] = readers[i].snap
             /\ readers[i].pc = "done"
                    => /\ readers[i].vns = readers[i].snap.virtualNodes
                       /\ readers[i].owners = readers[i].snap.replicaOwners)
    /\ [][orig /= 0
            => /\ rings'[orig].state = rings[orig].state
                    => states'[rings[orig].state] = states[rings[orig].state]
               /\ rings'[orig].state /= rings[orig].state
                    => /\ writer.pc = "fixed"
                       /\ states'[rings'[orig].state] =
                             IF writer.op = "Insert"
                             THEN insert(derive(states[rings[orig].state]), writer.nodes).state
                             ELSE remove(derive(states[rings[orig].state]), writer.nodes).state]_vars

\* A reader that loaded the state before a store and read it after: what it
\* saw is the old state, not the published one.
C1_Witness ==
    /\ orig /= 0
    /\ \E i \in Readers :
          /\ readers[i].pc = "done"
          /\ readers[i].ptr /= Load(orig)
          /\ readers[i].vns /= Published.virtualNodes
          /\ Len(readers[i].vns) > 0
          /\ writer.pc = "merged"

\* C2: a step that ends an Insert whose batch names a node that already owns virtual
\* nodes in the ring returns an error and no virtual nodes, and leaves the
\* published pointer and every state on the heap as they were.
C2_InsertAllOrNothing ==
    [][(orig /= 0 /\ call'.op = "Insert" /\ call'.ring = "orig"
           /\ BatchNodes(call'.nodes) \cap PublishedOwners /= {})
              => /\ call'.err /= Nil
                 /\ call'.val = <<>>
                 /\ rings' = rings
                 /\ states' = states]_vars

\* A failed Insert of A and B on a ring that has B and not A: A was not added.
C2_Witness ==
    /\ orig /= 0
    /\ call.op = "Insert" /\ call.nodes = <<"A", "B">> /\ call.err = ErrDuplicate
    /\ PublishedOwners \cap {"A", "B"} = {"B"}

\* C3: a step that ends a Remove whose batch names a node that owns no virtual node in
\* the ring returns an error and no virtual nodes, and leaves the published
\* pointer and every state on the heap as they were.
C3_RemoveAllOrNothing ==
    [][(orig /= 0 /\ call'.op = "Remove" /\ call'.ring = "orig"
           /\ BatchNodes(call'.nodes) \ PublishedOwners /= {})
              => /\ call'.err /= Nil
                 /\ call'.val = <<>>
                 /\ rings' = rings
                 /\ states' = states]_vars

\* A failed Remove of A and B on a ring that has A and not B: A was not removed.
C3_Witness ==
    /\ orig /= 0
    /\ call.op = "Remove" /\ call.nodes = <<"A", "B">> /\ call.err = ErrMissing
    /\ PublishedOwners \cap {"A", "B"} = {"A"}

C6_InsertRemoveRoundTrip ==
    trip.stage = "removed"
        => /\ call.op = "Remove" /\ call.err = Nil
           /\ Names(states[Load(Handle(trip.ring))]) = trip.names

\* A round trip of two nodes on a ring that had virtual nodes.
C6_Witness ==
    /\ trip.stage = "removed" /\ trip.nodes = <<"B", "C">>
    /\ Len(trip.names) > 0
    /\ Names(Published) = trip.names

\* The owner of the virtual node a key is assigned to.
KeyOwner(s, key) == s.virtualNodes[indexForKey(s, key) + 1].node

\* C8: PredecessorNode and SuccessorNode return a virtual node of the other
\* node on a ring of two distinct nodes, the single-owner error on a ring of
\* one, and an error on an empty ring.
C8_OtherNode ==
    (orig /= 0 /\ call.op \in {"PredecessorNode", "SuccessorNode"})
        => /\ size(Published) = 2
                => /\ call.out = "ok" /\ call.err = Nil /\ Len(call.val) = 1
                   /\ \E i \in 1..Len(Published.virtualNodes) :
                          Published.virtualNodes[i] = call.val[1]
                   /\ call.val[1].node /= KeyOwner(Published, call.key)
           /\ size(Published) = 1
                => call.out = "ok" /\ call.err = ErrSingleOwner /\ call.val = <<>>
           /\ size(Published) = 0
                => call.out = "ok" /\ call.err /= Nil /\ call.val = <<>>

\* PredecessorNode on a ring of two nodes where the predecessor of the key's
\* virtual node belongs to the same node.
C8_Witness ==
    /\ orig /= 0
    /\ call.op = "PredecessorNode" /\ call.err = Nil /\ Len(call.val) = 1
    /\ size(Published) = 2
    /\ predecessor(Published, call.key).val[1].node = KeyOwner(Published, call.key)
    /\ call.val[1].node /= KeyOwner(Published, call.key)

Lookups ==
    {"NodesForKey", "VirtualNodeForKey", "Predecessor", "Successor",
     "PredecessorNode", "SuccessorNode"}

\* C9: on a ring with no virtual nodes Size is 0, HasVirtualNode is false and
\* every lookup returns the empty-ring error: no panic, no nil result
\* without an error.
C9_EmptyRingErrors ==
    (orig /= 0 /\ Len(Published.virtualNodes) = 0)
        => /\ call.op = "Size" => call.val = <<0>>
           /\ call.op = "HasVirtualNode" => call.val = <<FALSE>>
           /\ call.op \in Lookups => (call.out = "ok" /\ call.err = ErrEmptyRing)

\* C10: NewHashRing returns an error and no ring exactly when the hash
\* function is nil or one of the two integers is outside its range, and the
\* fields of a ring it returns hold the integers it was given.
C10_ConstructionLimits ==
    call.op = "NewHashRing"
        => /\ call.err /= Nil
                <=> \/ call.hashFunc = NilHash
                    \/ call.rf < 1 \/ call.rf > 255
                    \/ call.vnc < 1 \/ call.vnc > 65535
           /\ call.err /= Nil => (orig = 0 /\ call.val = <<>>)
           /\ call.err = Nil
                => /\ orig /= 0
                   /\ rings[orig].hash = call.hashFunc
                   /\ Published.replicationFactor = call.rf
                   /\ Published.virtualNodeCount = call.vnc

\* A ring constructed with the largest replication factor and virtual-node count.
C10_Witness ==
    /\ call.op = "NewHashRing" /\ call.err = Nil /\ orig /= 0
    /\ call.rf = 255 /\ call.vnc = 65535
    /\ Published.replicationFactor = 255 /\ Published.virtualNodeCount = 65535

\* The state the clone publishes.
PublishedClone == states[Load(clone)]

\* Ascending byte-lexicographic order of the names.
Sorted(vns) == \A i \in 1..(Len(vns) - 1) : bytesCompare(vns[i].name, vns[i + 1].name) <= 0

\* C4: the virtual nodes of every published state, of the ring and of its
\* clone, are sorted ascending by name.
C4_SortedByName ==
    \A r \in RingIds : rings[r].state /= 0 => Sorted(states[rings[r].state].virtualNodes)

\* A clone of a ring on which nodes were inserted in an order other than
\* that of their names.
C4_Witness ==
    /\ clone /= 0 /\ call.op = "Clone"
    /\ PublishedClone.hash = "scatter" /\ PublishedClone.virtualNodeCount = 2
    /\ size(PublishedClone) = 3
    /\ Sorted(PublishedClone.virtualNodes)

\* C7: the ring Clone returns has the virtual nodes and the replica owners of
\* the original, and a step of Insert or Remove on one of the two rings
\* leaves the state the other publishes as it was.
C7_CloneIndependent ==
    /\ [](call.op = "Clone"
            => /\ clone /= 0
               /\ PublishedClone.virtualNodes = Published.virtualNodes
               /\ PublishedClone.replicaOwners = Published.replicaOwners)
    /\ [][(orig /= 0 /\ clone /= 0 /\ call'.op \in {"Insert", "Remove"})
            => LET o == IF call'.ring = "orig" THEN clone ELSE orig
               IN  /\ rings'[o].state = rings[o].state
                   /\ states'[rings[o].state] = states[rings[o].state]]_vars

\* After a successful Insert on the clone the two rings differ.
C7_Witness ==
    /\ orig /= 0 /\ clone /= 0
    /\ call.op = "Insert" /\ call.ring = "clone" /\ call.err = Nil
    /\ Len(Published.virtualNodes) > 0
    /\ Names(PublishedClone) /= Names(Published)

\* The virtual nodes of a state in the order a cursor of the kind yields them.
Reverse(q) == [i \in 1..Len(q) |-> q[Len(q) + 1 - i]]
Yields(kind, s) == IF kind = "forward" THEN s.virtualNodes ELSE Reverse(s.virtualNodes)

\* C11: a cursor yields the virtual nodes of the state published at its
\* creation, each once, in ascending order of the names if it is a forward
\* cursor and in descending order if it is a reverse one, and reports the
\* end after the last of them (at its first step when that state is empty),
\* whatever the writer stores meanwhile.
C11_CursorBoundToSnapshot ==
    /\ [](cursor.kind /= "none"
            => LET want == Yields(cursor.kind, cursor.snap)
                   got == cursor.seen
               IN  /\ Len(got) <= Len(want)
                   /\ \A k \in 1..Len(got) : got[k] = want[k]
                   /\ \A j, k \in 1..Len(got) :
                          j < k => bytesCompare(got[j].name, got[k].name)
                                      = (IF cursor.kind = "forward" THEN -1 ELSE 1)
                   /\ cursor.ended => got = want)
    /\ [][(cursor.kind /= "none" /\ cursor'.kind /= "none" /\ cursor' /= cursor)
            => IF Len(cursor.seen) = Len(cursor.snap.virtualNodes)
               THEN cursor'.ended /\ cursor'.seen = cursor.seen
               ELSE ~cursor'.ended /\ Len(cursor'.seen) = Len(cursor.seen) + 1]_vars

\* A reverse cursor that reported the end of a state of several virtual
\* nodes which the writer has replaced since the cursor was created.
C11_Witness ==
    /\ orig /= 0
    /\ cursor.kind = "reverse" /\ cursor.ended
    /\ Len(cursor.seen) >= 4
    /\ cursor.ring /= Load(orig)
    /\ Len(Published.virtualNodes) > Len(cursor.seen)

\* C12: the published state is always that of the latest completed store;
\* a read that starts loads that state, the one of the latest store completed
\* before it or of no older one, and never one older than the state its
\* reader loaded before.
C12_ReadsFollowStores ==
    /\ [](orig /= 0 => log.version[Load(orig)] = log.stores)
    /\ [][\A i \in Readers :
              (readers[i].pc = "idle" /\ readers'[i].pc = "loaded")
                  => /\ log.version[readers'[i].ptr] >= log.stores
                     /\ log.version[readers'[i].ptr] >= log.last[i]
                     /\ readers'[i].snap = states[Load(orig)]]_vars

\* A reader that loaded the state of the first store and now that of the
\* second.
C12_Witness ==
    /\ orig /= 0
    /\ log.stores = 2
    /\ \E i \in Readers :
          /\ readers[i].pc = "loaded"
          /\ log.last[i] = 2
          /\ readers[i].ptr = Load(orig)
          /\ readers[i].snap = Published

\* The node met k steps forward of the virtual node at index i (1-based) of
\* a ring of virtual nodes, and the first step at which a node is met.
NodeAhead(vns, i, k) == vns[((i - 1 + k) % Len(vns)) + 1].node
FirstAhead(vns, i, o) ==
    CHOOSE k \in 1..Len(vns) :
        NodeAhead(vns, i, k) = o /\ \A j \in 1..(k - 1) : NodeAhead(vns, i, j) /= o

\* The replica-owner mapping of a state is that of the walk: an entry for
\* each virtual node and no other, holding the distinct nodes in the order
\* they are first met walking forward from just after the virtual node, as
\* many as the replication factor or all the nodes of the ring.
OwnersByWalk(s) ==
    LET vns == s.virtualNodes
    IN  /\ DOMAIN s.replicaOwners = {vns[i] : i \in 1..Len(vns)}
        /\ \A i \in 1..Len(vns) :
              LET list == s.replicaOwners[vns[i]]
              IN  /\ Len(list) = Min(s.replicationFactor, Cardinality(owners(vns)))
                  /\ \A m \in 1..Len(list) :
                        /\ list[m] \in owners(vns)
                        /\ Cardinality({o \in owners(vns) :
                                FirstAhead(vns, i, o) < FirstAhead(vns, i, list[m])}) = m - 1

\* C13: in every state a ring or its clone publishes, after any Insert,
\* Remove and Clone, the replica-owner mapping has an entry for exactly the
\* virtual nodes of the state, and each entry lists the distinct nodes met
\* walking forward from just after its virtual node, up to the replication
\* factor or all the nodes of the ring.
C13_ReplicaOwnersByWalk ==
    \A r \in RingIds : rings[r].state /= 0 => OwnersByWalk(states[rings[r].state])

\* After a Remove on a ring of three nodes with two virtual nodes each and
\* replication factor two: the entries of the removed node are gone, and the
\* others were repaired.
C13_Witness ==
    /\ orig /= 0
    /\ call.op = "Remove" /\ call.ring = "orig" /\ call.err = Nil /\ call.nodes = <<"A">>
    /\ Published.replicationFactor = 2 /\ Published.virtualNodeCount = 2
    /\ Published.hash = "scatter"
    /\ owners(Published.virtualNodes) = {"B", "C"}
    /\ Cardinality(DOMAIN Published.replicaOwners) = 4
    /\ \E vn \in DOMAIN Published.replicaOwners :
          vn.node = "C" /\ Published.replicaOwners[vn] = <<"B", "C">>

\* A batch clashes on a state when two of the virtual nodes generated for it
\* have the same name, or one of them the name of a virtual node of the state.
Clashes(s, nodes) ==
    LET new == generate(s, nodes, 0)
    IN  \/ \E i, j \in 1..Len(new) : i /= j /\ new[i].name = new[j].name
        \/ \E i \in 1..Len(new), k \in 1..Len(s.virtualNodes) :
              new[i].name = s.virtualNodes[k].name

\* C14: the names of the virtual nodes of every published state are pairwise
\* different, also under a hash function that makes names collide; an
\* Insert whose batch names a node twice or generates a name that collides
\* returns an error and leaves the ring as it was.
C14_UniqueNames ==
    /\ [](orig /= 0
            => \A i, j \in 1..Len(Published.virtualNodes) :
                  i /= j => Published.virtualNodes[i].name /= Published.virtualNodes[j].name)
    /\ [][(orig /= 0 /\ call'.op = "Insert" /\ Clashes(Published, call'.nodes))
            => /\ call'.err /= Nil
               /\ call'.val = <<>>
               /\ rings' = rings
               /\ states' = states]_vars

\* A failed Insert of B, whose first virtual node collides with the second
\* of A, on a ring that has A only.
C14_Witness ==
    /\ orig /= 0
    /\ Published.hash = "clash" /\ Published.virtualNodeCount = 2
    /\ call.op = "Insert" /\ call.nodes = <<"B">> /\ call.err = ErrDuplicate
    /\ PublishedOwners = {"A"}
    /\ NewVirtualNode("clash", "B", 0).name = NewVirtualNode("clash", "A", 1).name

\* The 1-based indices of the virtual nodes whose name is not below a key.
NotBelow(vns, key) == {i \in 1..Len(vns) : bytesCompare(vns[i].name, key) >= 0}

\* C15: on a ring with virtual nodes VirtualNodeForKey returns the virtual
\* node a scan of the sequence from its start meets first with a name not
\* below the key, which is the one with the smallest such name, and the
\* virtual node at index 0 when every name is below the key.
C15_LookupIsLinearScan ==
    (orig /= 0 /\ call.op = "VirtualNodeForKey" /\ Len(Published.virtualNodes) > 0)
        => LET vns == Published.virtualNodes
               hits == NotBelow(vns, call.key)
           IN  /\ call.out = "ok" /\ call.err = Nil /\ Len(call.val) = 1
               /\ hits = {} => call.val[1] = vns[1]
               /\ hits /= {}
                    => /\ \E i \in hits :
                             /\ call.val[1] = vns[i]
                             /\ \A j \in 1..(i - 1) : j \notin hits
                       /\ \A j \in hits : bytesCompare(call.val[1].name, vns[j].name) <= 0

\* A key above every name of a ring of six virtual nodes: the lookup wraps
\* to the first.
C15_Witness ==
    /\ orig /= 0
    /\ call.op = "VirtualNodeForKey" /\ call.key = <<3, 3, 0>>
    /\ Len(Published.virtualNodes) = 6
    /\ NotBelow(Published.virtualNodes, call.key) = {}
    /\ call.val = <<Published.virtualNodes[1]>>

\* The 1-based index of a virtual node in a sequence that holds it.
IndexOf(vns, vn) == CHOOSE i \in 1..Len(vns) : vns[i] = vn

\* C16: on a ring with virtual nodes, Predecessor returns the virtual node
\* just before the one the key is assigned to, and the last one when that
\* is the first; Successor returns the one just after it, and the first
\* when that is the last; on a ring of one virtual node both return it.
C16_NeighboursWrap ==
    (orig /= 0 /\ call.op \in {"Predecessor", "Successor"} /\ Len(Published.virtualNodes) > 0)
        => LET vns == Published.virtualNodes
               n == Len(vns)
               at == IndexOf(vns, virtualNodeForKey(Published, call.key, NilResult).val[1])
           IN  /\ call.out = "ok" /\ call.err = Nil /\ Len(call.val) = 1
               /\ call.op = "Predecessor"
                    => call.val[1] = (IF at = 1 THEN vns[n] ELSE vns[at - 1])
               /\ call.op = "Successor"
                    => call.val[1] = (IF at = n THEN vns[1] ELSE vns[at + 1])
               /\ n = 1 => call.val[1] = vns[1]

\* Predecessor of a key assigned to the first of six virtual nodes: the last.
C16_Witness ==
    /\ orig /= 0
    /\ call.op = "Predecessor" /\ call.err = Nil
    /\ Len(Published.virtualNodes) = 6
    /\ virtualNodeForKey(Published, call.key, NilResult).val = <<Published.virtualNodes[1]>>
    /\ call.val = <<Published.virtualNodes[6]>>

\* C17: the producing task of a push iteration returns once its consumer
\* received every virtual node of the loaded state or signalled the stop
\* channel, and only then; while its consumer, gone before the end, does not
\* signal the stop channel, the task stays where it is, blocked on its send.
C17_PushTermination ==
    /\ (push.pc = "running"
           /\ (push.stop \/ Len(push.received) = Len(push.snap.virtualNodes)))
          ~> (push.pc = "done")
    /\ [](push.pc = "done"
            => (push.stop \/ push.received = Yields(IF push.reversed THEN "reverse" ELSE "forward",
                                                   push.snap)))
    /\ [][(push.pc = "running" /\ push.consumer = "gone"
             /\ Len(push.received) < Len(push.snap.virtualNodes)
             /\ ~push.stop /\ ~push'.stop)
            => push' = push]_vars

\* The leak: the consumer left after two of four virtual nodes without
\* signalling the stop channel, and the producing task is still there.
C17_Witness ==
    /\ push.pc = "running" /\ push.consumer = "gone" /\ ~push.stop
    /\ Len(push.received) = 2 /\ Len(push.snap.virtualNodes) = 4
    /\ ~ENABLED Send /\ ~ENABLED ProducerStop /\ ~ENABLED ProducerClose

\* The virtual node k places after (forward) or before the one at the
\* 1-based index at.
Beside(vns, at, k, forward) ==
    vns[((at - 1 + (IF forward THEN k ELSE Len(vns) - k)) % Len(vns)) + 1]

\* C18: PredecessorNode and SuccessorNode return on every ring and for every
\* key: on a ring of two or more distinct nodes, the virtual node of another
\* node met first walking backwards (PredecessorNode) or forwards
\* (SuccessorNode) from the key's virtual node, found before the walk has
\* been round the ring; on a ring of one distinct node or none, an error.
C18_NodeWalkEnds ==
    (orig /= 0 /\ call.op \in {"PredecessorNode", "SuccessorNode"})
        => LET vns == Published.virtualNodes
               n == Len(vns)
               forward == call.op = "SuccessorNode"
           IN  /\ call.out = "ok"
               /\ size(Published) <= 1 => (call.err /= Nil /\ call.val = <<>>)
               /\ size(Published) >= 2
                    => LET at == IndexOf(vns, virtualNodeForKey(Published, call.key, NilResult).val[1])
                       IN  /\ call.err = Nil /\ Len(call.val) = 1
                           /\ \E k \in 1..(n - 1) :
                                 /\ call.val[1] = Beside(vns, at, k, forward)
                                 /\ call.val[1].node /= vns[at].node
                                 /\ \A j \in 1..(k - 1) :
                                       Beside(vns, at, j, forward).node = vns[at].node

\* SuccessorNode on a ring of three nodes whose virtual nodes lie in
\* groups: the walk passes a virtual node of the same node, and the one
\* it returns is not the one PredecessorNode returns.
C18_Witness ==
    /\ orig /= 0
    /\ call.op = "SuccessorNode" /\ call.err = Nil /\ Len(call.val) = 1
    /\ size(Published) = 3 /\ Published.hash = "grouped"
    /\ successor(Published, call.key).val[1].node = KeyOwner(Published, call.key)
    /\ call.val[1].node /= KeyOwner(Published, call.key)
    /\ call.val /= predecessorNode(Published, call.key).val

\* What an Insert or Remove of a writer makes of a state.
Applied(w, base) ==
    IF w.op = "Insert" THEN insert(derive(base), w.nodes).state
    ELSE remove(derive(base), w.nodes).state

\* C19: a store of either writer publishes what its Insert or Remove makes
\* of the state the writer loaded: of the published state when nothing was
\* stored since the load, as it is with the writers serialized, and
\* otherwise of an older state, so that what the other writer stored since
\* is lost though both succeeded.
C19_StoreOfLoadedState ==
    [][(orig /= 0 /\ rings'[orig].state /= rings[orig].state)
          => LET w == IF writer'.pc /= writer.pc THEN writer ELSE rival
                 before == states[rings[orig].state]
                 after == states'[rings'[orig].state]
             IN  /\ w.pc = "fixed"
                 /\ after = Applied(w, states[w.old])
                 /\ w.old = rings[orig].state => after = Applied(w, before)
                 /\ w.old /= rings[orig].state
                      => owners(after.virtualNodes) =
                            IF w.op = "Insert"
                            THEN owners(states[w.old].virtualNodes) \cup BatchNodes(w.nodes)
                            ELSE owners(states[w.old].virtualNodes) \ BatchNodes(w.nodes)]_vars

\* The lost update: two stores were completed on a ring constructed empty,
\* the first writer's Insert of A and the second's Insert of B, and the ring
\* has B only.
C19_Witness ==
    /\ orig /= 0
    /\ log.stores = 2
    /\ writer.pc = "idle" /\ rival.pc = "idle"
    /\ PublishedOwners = {"B"}

\* The state of a ring constructed without nodes.
EmptyState(hashFunc, replicationFactor, virtualNodeCount) ==
    [hash |-> hashFunc, virtualNodeCount |-> virtualNodeCount,
     replicationFactor |-> replicationFactor, virtualNodes |-> <<>>, replicaOwners |-> <<>>]

\* C20: NewHashRing with valid arguments and initial nodes returns the error
\* of their insertion and no ring when the insertion fails, and otherwise a
\* ring publishing the state an Insert of the nodes into an empty ring makes.
C20_InitialInsertReported ==
    (call.op = "NewHashRing" /\ Len(call.nodes) > 0
        /\ InvalidArguments(call.hashFunc, call.rf, call.vnc) = Nil)
        => LET res == insert(EmptyState(call.hashFunc, call.rf, call.vnc), call.nodes)
           IN  /\ res.err /= Nil => (call.err /= Nil /\ call.val = <<>> /\ orig = 0)
               /\ res.err = Nil
                    => (call.err = Nil /\ orig /= 0 /\ Published = res.state)

====
